---- MODULE Spec2Model ----
(***************************************************************************)
(* Startup Lawyer API (src/main.py): the HTTP handlers, the template merge *)
(* done with str.format, and the document store they delegate to.          *)
(*                                                                         *)
(* Text is a sequence of one-character strings; a fixed message of the     *)
(* Python runtime is one element holding the whole message.  A Python      *)
(* dict is a function; a Python value is a record [kind, val].             *)
(***************************************************************************)
EXTENDS Naturals, Sequences, FiniteSets, TLC

---------------------------------------------------------------------------
(* Bounds of the model *)

\* longest template body of the merge specification
MaxBodyLen == 6
\* records the store may hold, all collections together
MaxRecords == 2
\* largest explicit limit of a list request
MaxLimit == 2
\* collections of the database that no request of the model writes
MaxOtherCollections == 11
\* length of the longest error text the store raises
MaxErrLen == 51

---------------------------------------------------------------------------
(* Python values and dicts *)

VStr(s) == [kind |-> "str", val |-> s]
VInt(n) == [kind |-> "int", val |-> n]
VNone == [kind |-> "none", val |-> 0]
VOid(n) == [kind |-> "oid", val |-> n]
VDict(d) == [kind |-> "dict", val |-> d]

EmptyDict == [k \in {} |-> VNone]

\* dict.get(key, default)
Get(d, key, default) == IF key \in DOMAIN d THEN d[key] ELSE default

\* d[key] = value on a dict
SetItem(d, key, value) ==
    [k \in DOMAIN d \cup {key} |-> IF k = key THEN value ELSE d[k]]

\* s[:n]
Take(s, n) == SubSeq(s, 1, IF n < Len(s) THEN n ELSE Len(s))

Digit(d) == <<"0", "1", "2", "3", "4", "5", "6", "7", "8", "9">>[d + 1]

RECURSIVE DigitsOf(_)
\* str(n) of a non-negative int
DigitsOf(n) ==
    IF n < 10 THEN <<Digit(n)>> ELSE Append(DigitsOf(n \div 10), Digit(n % 10))

\* str(v), which is also format(v, "") for these kinds
Str(v) ==
    CASE v.kind = "str" -> v.val
      [] v.kind = "int" -> DigitsOf(v.val)
      [] v.kind = "oid" -> DigitsOf(v.val)
      [] v.kind = "none" -> <<"None">>
      [] OTHER -> <<"{...}">>

\* repr(key) of a str key: str(KeyError(key))
Repr(key) == <<"'">> \o key \o <<"'">>

---------------------------------------------------------------------------
(* str.format with keyword arguments only *)

Letters == {"a", "b"}
Digits == {"0"}
Braces == {"{", "}"}
Chars == Braces \cup Letters \cup Digits

Returned(text) == [exc |-> "none", text |-> text]
Raised(exc, text) == [exc |-> exc, text |-> text]

SingleClose == <<"Single '}' encountered in format string">>
SingleOpen == <<"Single '{' encountered in format string">>
ExpectedClose == <<"expected '}' before end of string">>
UnexpectedOpen == <<"unexpected '{' in field name">>
IndexOutOfRange == <<"Replacement index 0 out of range for positional args tuple">>
NoFormatAttr == <<"object has no attribute 'format'">>

RECURSIVE FieldEnd(_, _)
\* the index of the first brace at or after i, Len(s) + 1 when there is none
FieldEnd(s, i) ==
    IF i > Len(s) THEN i
    ELSE IF s[i] \in Braces THEN i
    ELSE FieldEnd(s, i + 1)

IsDigits(name) == name # <<>> /\ \A k \in 1..Len(name) : name[k] \in Digits

\* A field whose name is empty (auto-numbered) or all digits is positional;
\* format gets no positional arguments and the only digit is 0, so the index
\* asked for is always 0.
RECURSIVE FormatFrom(_, _, _, _)
\* FormatFrom with an off-by-one: after a field it resumes at the closing
\* brace instead of after it
FormatFromResumesAtBrace(s, i, kwargs, out) ==
    IF i > Len(s) THEN Returned(out)
    ELSE IF s[i] \notin Braces THEN FormatFrom(s, i + 1, kwargs, Append(out, s[i]))
    ELSE IF s[i] = "}" THEN
        IF i = Len(s) \/ s[i + 1] # "}"
        THEN Raised("ValueError", SingleClose)
        ELSE FormatFrom(s, i + 2, kwargs, Append(out, "}"))
    ELSE IF i = Len(s) THEN Raised("ValueError", SingleOpen)
    ELSE IF s[i + 1] = "{" THEN FormatFrom(s, i + 2, kwargs, Append(out, "{"))
    ELSE LET j == FieldEnd(s, i + 1)
             name == SubSeq(s, i + 1, j - 1)
         IN  IF j > Len(s) THEN Raised("ValueError", ExpectedClose)
             ELSE IF s[j] = "{" THEN Raised("ValueError", UnexpectedOpen)
             ELSE IF name = <<>> \/ IsDigits(name)
                  THEN Raised("IndexError", IndexOutOfRange)
             ELSE IF name \in DOMAIN kwargs
                  THEN FormatFrom(s, j, kwargs, out \o Str(kwargs[name]))
             ELSE Raised("KeyError", Repr(name))

FormatFrom(s, i, kwargs, out) ==
    IF i > Len(s) THEN Returned(out)
    ELSE IF s[i] \notin Braces THEN FormatFrom(s, i + 1, kwargs, Append(out, s[i]))
    ELSE IF s[i] = "}" THEN
        IF i = Len(s) \/ s[i + 1] # "}"
        THEN Raised("ValueError", SingleClose)
        ELSE FormatFrom(s, i + 2, kwargs, Append(out, "}"))
    ELSE IF i = Len(s) THEN Raised("ValueError", SingleOpen)
    ELSE IF s[i + 1] = "{" THEN FormatFrom(s, i + 2, kwargs, Append(out, "{"))
    ELSE LET j == FieldEnd(s, i + 1)
             name == SubSeq(s, i + 1, j - 1)
         IN  IF j > Len(s) THEN Raised("ValueError", ExpectedClose)
             ELSE IF s[j] = "{" THEN Raised("ValueError", UnexpectedOpen)
             ELSE IF name = <<>> \/ IsDigits(name)
                  THEN Raised("IndexError", IndexOutOfRange)
             ELSE IF name \in DOMAIN kwargs
                  THEN FormatFrom(s, j + 1, kwargs, out \o Str(kwargs[name]))
             ELSE Raised("KeyError", Repr(name))

\* body.format, called with the variables as keyword arguments; a body that is no str has no such method
Format(body, variables) ==
    IF body.kind = "str" THEN FormatFrom(body.val, 1, variables, <<>>)
    ELSE Raised("AttributeError", NoFormatAttr)

---------------------------------------------------------------------------
(* Program constants *)

\* list_items(collection, limit=50)
DefaultLimit == 50
\* collections[:10]
SampleSize == 10
\* str(e)[:50]
ErrCut == 50

---------------------------------------------------------------------------
(* State *)

VARIABLES
    dbconn,   \* database.db: "unloadable" (the name cannot be imported),
              \* "none" (db is None) or "handle"
    store,    \* the database: collection name -> the records inserted, in order
    nextId,   \* the next identifier the store assigns
    req,      \* the request handled last
    resp,     \* its response: status and payload
    log       \* history: the successful creates, in order

vars == <<dbconn, store, nextId, req, resp, log>>

Collections == {"document", "client"}

NoRequest == [op |-> "none"]
Pending == [status |-> 0]

RECURSIVE SumLen(_, _)
SumLen(f, S) ==
    IF S = {} THEN 0
    ELSE LET c == CHOOSE x \in S : TRUE IN Len(f[c]) + SumLen(f, S \ {c})

TotalRecords == SumLen(store, Collections)

---------------------------------------------------------------------------
(* The document store: database.create_document, database.get_documents,   *)
(* database.db                                                             *)

\* The text of the error a failing store operation raises: `fault` characters.
StoreErr(fault) == [i \in 1..fault |-> "e"]

\* Whether the store answers this operation: fault = 0 means it does.
Answers(fault) == dbconn = "handle" /\ fault = 0

\* create_document(collection_name, data): the new id as a string
create_document(collection, data, fault) ==
    IF ~Answers(fault)
    THEN [exc |-> "Exception", text |-> StoreErr(fault)]
    ELSE [exc |-> "none",
          id |-> DigitsOf(nextId),
          store |-> [store EXCEPT
                       ![collection] = Append(@, ("_id" :> VOid(nextId)) @@ data)],
          nextId |-> nextId + 1]

\* get_documents(collection_name, limit=limit): up to limit records
get_documents(collection, limit, fault) ==
    IF ~Answers(fault)
    THEN [exc |-> "Exception", text |-> StoreErr(fault)]
    ELSE [exc |-> "none", docs |-> Take(store[collection], limit)]

OtherName(i) == "other" \o ToString(i)

\* db.list_collection_names(): the collections that hold a record, then the
\* `others` collections of the database that this API never wrote
list_collection_names(others) ==
    (IF store["client"] # <<>> THEN <<"client">> ELSE <<>>)
    \o (IF store["document"] # <<>> THEN <<"document">> ELSE <<>>)
    \o [i \in 1..others |-> OtherName(i)]

DbName == <<"db.name">>

---------------------------------------------------------------------------
(* The handlers of src/main.py.  Each operator gives the outcome of one    *)
(* request in the current state: the response, and the store after it.     *)

Http200(payload) == [status |-> 200] @@ payload

\* Http400 when the exception is left to the framework: a server error
Http500(detail) == [status |-> 500, detail |-> detail]

\* raise HTTPException(status_code=400, detail=detail)
Http400(detail) == [status |-> 400, detail |-> detail]

\* a request that wrote nothing
Keep(response) ==
    [resp |-> response, store |-> store, nextId |-> nextId, log |-> log]

\* a request whose create_document call `made` succeeded
Wrote(response, made, entry) ==
    [resp |-> response, store |-> made.store, nextId |-> made.nextId,
     log |-> Append(log, entry @@ [id |-> made.id])]

read_root == Keep(Http200([message |-> <<"Startup Lawyer API is running">>]))

hello == Keep(Http200([message |-> <<"Hello from the backend API!">>]))

\* os.getenv(name) is truthy
EnvSet(environ, name) == IF name \in environ THEN <<"Set">> ELSE <<"Not Set">>

\* Sample without the slice
SampleAll(names) == names

\* collections[:10]
Sample(names) == Take(names, SampleSize)

\* The texts are those of the source without their leading status marks.
test_database(environ, fault, others) ==
    LET response == [backend |-> <<"Running">>,
                     database |-> <<"Not Available">>,
                     database_url |-> <<"None">>,
                     database_name |-> <<"None">>,
                     connection_status |-> <<"Not Connected">>,
                     collections |-> <<>>]
        connected == [response EXCEPT
                        !.database = <<"Connected & Working">>,
                        !.database_url = EnvSet(environ, "DATABASE_URL"),
                        !.database_name = DbName,
                        !.connection_status = <<"Connected">>]
        tried ==
            IF dbconn = "unloadable"
            THEN [response EXCEPT
                    !.database = <<"Error: ">> \o Take(StoreErr(fault), ErrCut)]
            ELSE IF dbconn = "handle"
            THEN IF fault = 0
                 THEN [connected EXCEPT
                         !.collections = Sample(list_collection_names(others))]
                 ELSE [connected EXCEPT
                         !.database = <<"Connected but Error: ">>
                                         \o Take(StoreErr(fault), ErrCut)]
            ELSE [response EXCEPT !.database = <<"Available but not initialized">>]
    IN  Keep(Http200([tried EXCEPT
                        !.database_url = EnvSet(environ, "DATABASE_URL"),
                        !.database_name = EnvSet(environ, "DATABASE_NAME")]))

\* default_templates with the last entry lost
default_templates_two ==
    <<[name |-> "Mutual NDA", category |-> "contract",
       variables |-> <<"party_a_name", "party_b_name", "effective_date", "jurisdiction">>,
       body |-> "This Mutual Non-Disclosure Agreement ..."],
      [name |-> "Advisor Agreement", category |-> "corporate",
       variables |-> <<"company_name", "advisor_name", "equity_percent", "vesting_months">>,
       body |-> "This Advisor Agreement ..."]>>

default_templates ==
    <<[name |-> "Mutual NDA",
       category |-> "contract",
       variables |-> <<"party_a_name", "party_b_name", "effective_date", "jurisdiction">>,
       body |-> "This Mutual Non-Disclosure Agreement (the \"Agreement\") is made effective on {effective_date} between {party_a_name} and {party_b_name}. Each party agrees to hold Confidential Information in strict confidence and not to disclose it to any third party... Governing law: {jurisdiction}."],
      [name |-> "Advisor Agreement",
       category |-> "corporate",
       variables |-> <<"company_name", "advisor_name", "equity_percent", "vesting_months">>,
       body |-> "This Advisor Agreement is entered into by and between {company_name} and {advisor_name}. Compensation shall be equity equal to {equity_percent}% vesting over {vesting_months} months..."],
      [name |-> "IP Assignment",
       category |-> "ip",
       variables |-> <<"assignor_name", "assignee_company", "effective_date">>,
       body |-> "For good and valuable consideration, {assignor_name} hereby assigns to {assignee_company} all right, title, and interest in and to the Assigned Inventions effective {effective_date}..."]>>

\* BodyOf without the default: template.get("body")
BodyOfNoDefault(template) == Get(template, "body", VNone)

\* template.get("body", "")
BodyOf(template) == Get(template, "body", VStr(<<>>))

\* GeneratedDoc that keeps the template's body as the content
GeneratedDocUnfilled(template, variables, filled) ==
    [title |-> Get(template, "name", VStr(<<"Generated Document">>)),
     category |-> Get(template, "category", VStr(<<"contract">>)),
     content |-> BodyOf(template),
     template_id |-> VNone,
     variables |-> VDict(variables)]

\* the doc dict of generate_document; `filled` is the merged text
GeneratedDoc(template, variables, filled) ==
    [title |-> Get(template, "name", VStr(<<"Generated Document">>)),
     category |-> Get(template, "category", VStr(<<"contract">>)),
     content |-> VStr(filled),
     template_id |-> VNone,
     variables |-> VDict(variables)]

\* generate_document that stores the document before it merges
generate_document_stores_first(template, variables, fault) ==
    LET body == BodyOf(template)
        filled == Format(body, variables)
        draft == GeneratedDoc(template, variables, <<>>)
        made == create_document("document", draft, fault)
        entry == [op |-> "generate_document", collection |-> "document", data |-> draft]
    IN  IF made.exc # "none" THEN Keep(Http400(made.text))
        ELSE IF filled.exc = "KeyError"
        THEN Wrote(Http400(<<"Missing variable: ">> \o filled.text), made, entry)
        ELSE IF filled.exc # "none" THEN Wrote(Http400(filled.text), made, entry)
        ELSE Wrote(Http200([id |-> made.id, content |-> filled.text]), made, entry)

generate_document(template, variables, fault) ==
    LET body == BodyOf(template)
        filled == Format(body, variables)
        doc == GeneratedDoc(template, variables, filled.text)
        made == create_document("document", doc, fault)
    IN  IF filled.exc = "KeyError"
        THEN Keep(Http400(<<"Missing variable: ">> \o filled.text))
        ELSE IF filled.exc # "none" THEN Keep(Http400(filled.text))
        ELSE IF made.exc # "none" THEN Keep(Http400(made.text))
        ELSE Wrote(Http200([id |-> made.id, content |-> filled.text]), made,
                   [op |-> "generate_document", collection |-> "document", data |-> doc])

\* create_item that answers with the id of the collection's first record
create_item_first_id(collection, data, fault) ==
    LET made == create_document(collection, data, fault)
    IN  IF made.exc # "none" THEN Keep(Http400(made.text))
        ELSE Wrote(Http200([id |-> Str(made.store[collection][1]["_id"])]),
                   [made EXCEPT !.id = Str(made.store[collection][1]["_id"])],
                   [op |-> "create_item", collection |-> collection, data |-> data])

create_item(collection, data, fault) ==
    LET made == create_document(collection, data, fault)
    IN  IF made.exc # "none" THEN Keep(Http400(made.text))
        ELSE Wrote(Http200([id |-> made.id]), made,
                   [op |-> "create_item", collection |-> collection, data |-> data])

\* WithStringId without the conversion
WithRawId(d) == d

\* d["_id"] = str(d.get("_id"))
WithStringId(d) == SetItem(d, "_id", VStr(Str(Get(d, "_id", VNone))))

\* list_items with the body of create_item pasted in: it inserts the limit
list_items_inserts(collection, limit, fault) ==
    LET made == create_document(collection, [limit |-> VInt(limit)], fault)
    IN  IF made.exc # "none" THEN Keep(Http400(made.text))
        ELSE [Keep(Http200([items |-> <<>>])) EXCEPT !.store = made.store,
                                                     !.nextId = made.nextId]

list_items(collection, limit, fault) ==
    LET got == get_documents(collection, limit, fault)
    IN  IF got.exc # "none" THEN Keep(Http400(got.text))
        ELSE Keep(Http200([items |-> [i \in 1..Len(got.docs) |-> WithStringId(got.docs[i])]]))

FieldNames(model) ==
    CASE model = "client" ->
           {"name", "email", "phone", "company_type", "jurisdiction", "founders"}
      [] model = "matter" -> {"client_id", "title", "status", "description", "tags"}
      [] model = "documenttemplate" -> {"name", "category", "variables", "body"}
      [] model = "document" ->
           {"client_id", "matter_id", "title", "category", "content", "template_id",
            "variables"}
      [] model = "task" ->
           {"client_id", "matter_id", "title", "status", "due_date", "assignee", "notes"}

model_info(model) == [name |-> model, fields |-> FieldNames(model)]

\* `loaded`: whether "from schemas import ..." succeeds
schema_overview(loaded) ==
    IF loaded
    THEN Keep(Http200([collections |->
            <<model_info("client"), model_info("matter"), model_info("documenttemplate"),
              model_info("document"), model_info("task")>>]))
    ELSE Keep(Http200([error |-> <<"import failed">>]))

---------------------------------------------------------------------------
(* Requests *)

\* what the store does with the one operation of a request: 0, it answers;
\* n > 0, it raises an error whose text is n characters long
Faults == {0, MaxErrLen}
\* the diagnostic also meets errors whose text needs no cutting
TestFaults == {0, 1, MaxErrLen}

\* a store that is not there cannot answer
FaultFits(fault) == dbconn = "handle" \/ fault > 0

TwoFields ==
    [name |-> VStr(<<"NDA">>), category |-> VStr(<<"contract">>),
     body |-> VStr(<<"{", "a", "}", "b", "{", "b", "}">>)]
Stray == [body |-> VStr(<<"}", "{", "a", "}">>)]
NotText == [body |-> VInt(5)]

Templates == {TwoFields, EmptyDict, Stray, NotText}

OnlyA == (<<"a">> :> VStr(<<"X">>))
Both == (<<"a">> :> VStr(<<"X">>)) @@ (<<"b">> :> VInt(7))

Mappings == {EmptyDict, OnlyA, Both}

CreateData ==
    {[name |-> VStr(<<"Acme">>)],
     [title |-> VStr(<<"NDA">>), content |-> VStr(<<"a", "b">>)]}

Limits == 0..MaxLimit \cup {DefaultLimit}

Environs == SUBSET {"DATABASE_URL", "DATABASE_NAME"}

\* the template bodies and variable mappings of the merge specification
Bodies == UNION {[1..n -> Chars] : n \in 0..MaxBodyLen}
Keys == {<<"a">>, <<"b">>}
Values == {VStr(<<"X">>), VInt(7)}
AllMappings == UNION {[D -> Values] : D \in SUBSET Keys}
AllTemplates == {[body |-> VStr(b)] : b \in Bodies} \cup {EmptyDict}

---------------------------------------------------------------------------
(* Specification *)

Init ==
    /\ dbconn \in {"unloadable", "none", "handle"}
    /\ store = [c \in Collections |-> <<>>]
    /\ nextId = 1
    /\ req = NoRequest
    /\ resp = Pending
    /\ log = <<>>

\* the model stops inserting at MaxRecords records
Room(out) == out.store # store => TotalRecords < MaxRecords

\* one request handled: `out` is its outcome
Handle(request, out) ==
    /\ req' = request
    /\ resp' = out.resp
    /\ store' = out.store
    /\ nextId' = out.nextId
    /\ log' = out.log
    /\ UNCHANGED dbconn

ReadRoot == Handle([op |-> "read_root"], read_root)

Hello == Handle([op |-> "hello"], hello)

TestDatabase ==
    \E environ \in Environs, fault \in TestFaults, others \in {0, MaxOtherCollections} :
        /\ dbconn = "none" => fault = 0
        /\ dbconn = "unloadable" => fault > 0
        /\ fault > 0 \/ dbconn # "handle" => others = 0
        /\ Handle([op |-> "test_database", environ |-> environ, fault |-> fault,
                   others |-> others],
                  test_database(environ, fault, others))

DefaultTemplates ==
    Handle([op |-> "default_templates"], Keep(Http200([items |-> default_templates])))

GenerateDocument ==
    \E template \in Templates, variables \in Mappings, fault \in Faults :
        /\ FaultFits(fault)
        /\ Room(generate_document(template, variables, fault))
        /\ Handle([op |-> "generate_document", template |-> template,
                   variables |-> variables, fault |-> fault],
                  generate_document(template, variables, fault))

CreateItem ==
    \E collection \in Collections, data \in CreateData, fault \in Faults :
        /\ FaultFits(fault)
        /\ Room(create_item(collection, data, fault))
        /\ Handle([op |-> "create_item", collection |-> collection, data |-> data,
                   fault |-> fault],
                  create_item(collection, data, fault))

ListItems ==
    \E collection \in Collections, limit \in Limits, fault \in Faults :
        /\ FaultFits(fault)
        /\ Handle([op |-> "list_items", collection |-> collection, limit |-> limit,
                   fault |-> fault],
                  list_items(collection, limit, fault))

SchemaOverview ==
    \E loaded \in BOOLEAN :
        Handle([op |-> "schema_overview", loaded |-> loaded], schema_overview(loaded))

Next ==
    \/ ReadRoot
    \/ Hello
    \/ TestDatabase
    \/ DefaultTemplates
    \/ GenerateDocument
    \/ CreateItem
    \/ ListItems
    \/ SchemaOverview

Spec == Init /\ [][Next]_vars

\* what earlier runs of the process left in the database
SeededStore ==
    [c \in Collections |->
        IF c = "client"
        THEN <<("_id" :> VOid(1)) @@ [name |-> VStr(<<"Acme">>)]>>
        ELSE <<("_id" :> VOid(2))
                 @@ [title |-> VStr(<<"NDA">>), content |-> VStr(<<"a", "b">>)]>>]
SeededNextId == Len(SeededStore["client"]) + Len(SeededStore["document"]) + 1

\* The merge alone: one generate request, drawn from every body up to
\* MaxBodyLen and every mapping, against a populated store that answers.
MergeInit ==
    /\ dbconn = "handle"
    /\ store = SeededStore
    /\ nextId = SeededNextId
    /\ req \in {[op |-> "generate_document", template |-> t, variables |-> v, fault |-> 0] :
                  t \in AllTemplates, v \in AllMappings}
    /\ resp = Pending
    /\ log = <<>>

Merge ==
    /\ resp = Pending
    /\ Handle(req, generate_document(req.template, req.variables, req.fault))

MergeSpec == MergeInit /\ [][Merge]_vars

---------------------------------------------------------------------------
(* What the claims speak of: placeholders, as the specification defines    *)
(* them ({identifier}), and substitution by replacement.  None of this is  *)
(* taken from str.format.                                                  *)

IsIdentifier(name) ==
    /\ name # <<>>
    /\ name[1] \in Letters
    /\ \A k \in 1..Len(name) : name[k] \in Letters \cup Digits

\* s[i..j] is a placeholder {identifier}
PlaceholderAt(s, i, j) ==
    /\ i < j
    /\ s[i] = "{"
    /\ s[j] = "}"
    /\ IsIdentifier(SubSeq(s, i + 1, j - 1))

Occurrences(s) ==
    {p \in (1..Len(s)) \X (1..Len(s)) : PlaceholderAt(s, p[1], p[2])}

Placeholders(s) == {SubSeq(s, p[1] + 1, p[2] - 1) : p \in Occurrences(s)}

\* every brace of s opens or closes a placeholder
WellBraced(s) ==
    \A k \in 1..Len(s) :
        s[k] \in Braces => \E p \in Occurrences(s) : k = p[1] \/ k = p[2]

NoBraces(s) == \A k \in 1..Len(s) : s[k] \notin Braces

\* the placeholders of s the mapping has no entry for
MissingIn(s, variables) == Placeholders(s) \ DOMAIN variables

\* the one among them that occurs first in s
FirstMissing(s, variables) ==
    LET missing == {p \in Occurrences(s) :
                      SubSeq(s, p[1] + 1, p[2] - 1) \notin DOMAIN variables}
        first == CHOOSE p \in missing : \A q \in missing : p[1] <= q[1]
    IN  SubSeq(s, first[1] + 1, first[2] - 1)

\* the text a value stands for
Textual(v) == IF v = VInt(7) THEN <<"7">> ELSE v.val

RECURSIVE Substituted(_, _, _)
\* s from i on, each placeholder replaced by its variable's text
Substituted(s, i, variables) ==
    IF i > Len(s) THEN <<>>
    ELSE IF \E j \in 1..Len(s) : PlaceholderAt(s, i, j)
    THEN LET j == CHOOSE j \in 1..Len(s) : PlaceholderAt(s, i, j)
         IN  Textual(variables[SubSeq(s, i + 1, j - 1)]) \o Substituted(s, j + 1, variables)
    ELSE <<s[i]>> \o Substituted(s, i + 1, variables)

Restrict(f, S) == [x \in DOMAIN f \cap S |-> f[x]]

Contains(t, sub) ==
    \E i \in 0..Len(t) : i + Len(sub) <= Len(t) /\ SubSeq(t, i + 1, i + Len(sub)) = sub

\* a 400 client error with this detail
ClientError(detail) == [status |-> 400, detail |-> detail]

\* the name x as an error text quotes it
Quoted(x) == <<"'">> \o x \o <<"'">>

IsPrefix(a, b) == Len(a) <= Len(b) /\ SubSeq(b, 1, Len(a)) = a

IsGenerate == req.op = "generate_document"
Handled == resp # Pending
HasTextBody ==
    IsGenerate /\ "body" \in DOMAIN req.template /\ req.template["body"].kind = "str"
BodyText == req.template["body"].val

---------------------------------------------------------------------------
(* Claims about the merge, under MergeSpec *)

\* C1 as stated: whenever the body contains a placeholder {x} and the mapping
\* has no key x, the request ends in a 400 whose detail names x, and no
\* collection changes.
C1_AsStated ==
    Handled /\ HasTextBody =>
        \A x \in MissingIn(BodyText, req.variables) :
            /\ resp.status = 400
            /\ Contains(resp.detail, Quoted(x))
            /\ store = SeededStore

\* C1, amended: when the body's braces only delimit {identifier} placeholders
\* and the mapping lacks a key for one of them, the request ends in a 400
\* whose detail names the first such placeholder of the body, and no
\* collection changes: the failed merge never reaches the store.
C1_MissingVariableRejected ==
    Handled /\ HasTextBody /\ WellBraced(BodyText)
            /\ MissingIn(BodyText, req.variables) # {} =>
        /\ resp = ClientError(<<"Missing variable: ">>
                            \o Quoted(FirstMissing(BodyText, req.variables)))
        /\ store = SeededStore
        /\ nextId = SeededNextId

\* a merge that failed on a body with two placeholders the mapping lacks
C1_Witness ==
    /\ Handled /\ HasTextBody /\ WellBraced(BodyText)
    /\ Cardinality(MissingIn(BodyText, req.variables)) = 2
    /\ resp.status = 400
    /\ store = SeededStore

\* C3 as stated: for any body and any mapping with an entry for every
\* placeholder of the body, the output is the body with each placeholder
\* replaced by its variable's text, and entries naming no placeholder have no
\* effect.
C3_AsStated ==
    Handled /\ HasTextBody /\ Placeholders(BodyText) \subseteq DOMAIN req.variables =>
        /\ resp.status = 200
        /\ resp.content =
             Substituted(BodyText, 1, Restrict(req.variables, Placeholders(BodyText)))

\* C3, amended: for any body whose braces only delimit {identifier}
\* placeholders and any mapping with an entry for every placeholder of the
\* body, the output is the body with each placeholder replaced by its
\* variable's text and is otherwise identical to the body; entries naming no
\* placeholder have no effect.
C3_MergeSubstitutes ==
    Handled /\ HasTextBody /\ WellBraced(BodyText)
            /\ Placeholders(BodyText) \subseteq DOMAIN req.variables =>
        /\ resp.status = 200
        /\ resp.content =
             Substituted(BodyText, 1, Restrict(req.variables, Placeholders(BodyText)))

\* a merge of a body with a placeholder and other text, under a mapping that
\* also has an entry naming no placeholder and gives a number to the one named
C3_Witness ==
    /\ Handled /\ HasTextBody /\ WellBraced(BodyText)
    /\ Placeholders(BodyText) = {<<"b">>}
    /\ DOMAIN req.variables = Keys
    /\ req.variables[<<"b">>] = VInt(7)
    /\ Len(BodyText) > 3
    /\ resp.status = 200
    /\ resp.content # BodyText

\* C4 as stated: a body without placeholders is returned unchanged under every
\* mapping, and a template without a body field is merged as the empty string.
C4_AsStated ==
    Handled /\ IsGenerate =>
        /\ HasTextBody /\ Placeholders(BodyText) = {} =>
               resp.status = 200 /\ resp.content = BodyText
        /\ "body" \notin DOMAIN req.template =>
               resp.status = 200 /\ resp.content = <<>>

\* C4, amended: a body without brace characters is returned unchanged under
\* every mapping, the empty one included, and a template without a body field
\* is merged as the empty string.
C4_PlainBodyUnchanged ==
    Handled /\ IsGenerate =>
        /\ HasTextBody /\ NoBraces(BodyText) =>
               resp.status = 200 /\ resp.content = BodyText
        /\ "body" \notin DOMAIN req.template =>
               resp.status = 200 /\ resp.content = <<>>

\* a merge of a brace-free body of several characters under the empty mapping
C4_Witness ==
    /\ Handled /\ HasTextBody /\ NoBraces(BodyText)
    /\ Len(BodyText) >= 2
    /\ req.variables = EmptyDict
    /\ resp.status = 200
    /\ resp.content = BodyText

---------------------------------------------------------------------------
(* Claims about the handlers and the store, under Spec *)

MergeOf(r) == Format(Get(r.template, "body", VStr(<<>>)), r.variables)

Writers == {"generate_document", "create_item"}
StoreUsers == {"generate_document", "create_item", "list_items"}

\* every record the store holds, with its collection
Stored == {p \in Collections \X (1..TotalRecords) : p[2] <= Len(store[p[1]])}
RecordAt(p) == store[p[1]][p[2]]

\* C2: a generate-document request whose merge succeeds while the store
\* answers appends exactly one record to 'document' and changes no other
\* collection; the record's content is the filled text, and the response
\* carries the record's non-empty identifier and the same filled text.
C2_GenerateStoresOnce ==
    [][ req'.op = "generate_document" /\ Answers(req'.fault)
          /\ MergeOf(req').exc = "none" =>
            LET docs == store'["document"]
                rec == docs[Len(docs)]
            IN  /\ Len(docs) = Len(store["document"]) + 1
                /\ SubSeq(docs, 1, Len(docs) - 1) = store["document"]
                /\ \A c \in Collections \ {"document"} : store'[c] = store[c]
                /\ rec["content"] = VStr(MergeOf(req').text)
                /\ resp'.status = 200
                /\ resp'.id = Str(rec["_id"])
                /\ Len(resp'.id) > 0
                /\ resp'.content = MergeOf(req').text ]_vars

\* a successful generate of the two-placeholder template into a collection
\* that already held a record
C2_Witness ==
    /\ req.op = "generate_document"
    /\ req.template = TwoFields
    /\ resp.status = 200
    /\ resp.content = <<"X", "b", "7">>
    /\ Len(store["document"]) = 2

\* C5: after a successful generic create of r in c, a successful list of c
\* with limit >= 1 that covers the collection returns a record with r's fields
\* and, as its identifier, the non-empty string the create returned; a list
\* of another collection returns no record with that identifier.
C5_CreateThenList ==
    req.op = "list_items" /\ resp.status = 200 /\ req.limit >= 1
        /\ Len(store[req.collection]) <= req.limit =>
        \A k \in 1..Len(log) :
            log[k].op = "create_item" =>
                /\ Len(log[k].id) > 0
                /\ IF log[k].collection = req.collection
                   THEN \E i \in 1..Len(resp.items) :
                            resp.items[i] = ("_id" :> VStr(log[k].id)) @@ log[k].data
                   ELSE \A i \in 1..Len(resp.items) :
                            resp.items[i]["_id"] # VStr(log[k].id)

\* a list of a collection holding one created record, while the other
\* collection holds another
C5_Witness ==
    /\ req.op = "list_items" /\ resp.status = 200 /\ req.limit = 1
    /\ Len(resp.items) = 1
    /\ \E k \in 1..Len(log) :
           log[k].op = "create_item" /\ log[k].collection = req.collection
    /\ \E k \in 1..Len(log) :
           log[k].op = "create_item" /\ log[k].collection # req.collection

\* C6: every stored record carries a store-assigned identifier that is none
\* of its application fields, no two stored records share an identifier, and
\* no two successful creates returned the same id, whatever they carried.
C6_UniqueIds ==
    /\ \A p \in Stored :
           /\ "_id" \in DOMAIN RecordAt(p)
           /\ RecordAt(p)["_id"].kind = "oid"
           /\ \A f \in DOMAIN RecordAt(p) \ {"_id"} : RecordAt(p)[f] # RecordAt(p)["_id"]
    /\ \A p, q \in Stored : p # q => RecordAt(p)["_id"] # RecordAt(q)["_id"]
    /\ \A j, k \in 1..Len(log) : j # k => log[j].id # log[k].id
    /\ \A k \in 1..Len(log) :
           /\ "_id" \notin DOMAIN log[k].data
           /\ \E p \in Stored :
                  /\ p[1] = log[k].collection
                  /\ Str(RecordAt(p)["_id"]) = log[k].id
                  /\ RecordAt(p) = ("_id" :> RecordAt(p)["_id"]) @@ log[k].data

\* two successful creates of the same contents in the same collection
C6_Witness ==
    \E j, k \in 1..Len(log) :
        /\ j # k
        /\ log[j].op = "create_item" /\ log[k].op = "create_item"
        /\ log[j].data = log[k].data
        /\ log[j].collection = log[k].collection

\* C7: a stored record stays in its collection with the same identifier and
\* fields, so every collection only grows; and every operation but generic
\* create and generate-document leaves every collection as it was.
C7_CreateOnly ==
    [][ /\ \A c \in Collections : IsPrefix(store[c], store'[c])
        /\ req'.op \notin Writers => store' = store ]_vars

\* a list request served from a store that holds records
C7_Witness ==
    /\ req.op = "list_items" /\ resp.status = 200
    /\ Len(resp.items) = 2
    /\ TotalRecords = 2

\* what C8 says of the response
C8_Reported ==
    /\ req.op \in {"create_item", "list_items"} /\ ~Answers(req.fault) =>
           resp = ClientError(StoreErr(req.fault))
    /\ req.op = "generate_document" /\ MergeOf(req).exc = "KeyError" =>
           /\ resp.status = 400
           /\ HasTextBody
           /\ \E x \in MissingIn(BodyText, req.variables) :
                  resp.detail = <<"Missing variable: ">> \o Quoted(x)
    /\ req.op = "generate_document" /\ MergeOf(req).exc \notin {"none", "KeyError"} =>
           resp = ClientError(MergeOf(req).text)
    /\ req.op = "generate_document" /\ MergeOf(req).exc = "none" /\ ~Answers(req.fault) =>
           resp = ClientError(StoreErr(req.fault))

\* C8: when the store is unavailable or rejects the operation, generic
\* create, generic list and generate-document end the request in a 400 that
\* carries the failure text, add no record, and leave the process serving;
\* generate-document reports a missing variable as a 400 naming the key and
\* any other failure as a 400 carrying that failure's text.
C8_FailuresReported ==
    /\ [](C8_Reported /\ ENABLED Next)
    /\ [][ req'.op \in StoreUsers /\ resp'.status # 200 =>
             store' = store /\ nextId' = nextId /\ dbconn' = dbconn /\ log' = log ]_vars

\* a generate-document request whose merge succeeded and whose store write was
\* rejected, with records already stored
C8_Witness ==
    /\ req.op = "generate_document"
    /\ MergeOf(req).exc = "none"
    /\ dbconn = "handle" /\ req.fault > 0
    /\ resp.status = 400
    /\ TotalRecords > 0

\* the database status text of each store state
C9_StatusText ==
    CASE dbconn = "none" -> resp.database = <<"Available but not initialized">>
      [] dbconn = "unloadable" ->
           Len(resp.database) > 1 /\ Head(resp.database) = "Error: "
      [] dbconn = "handle" /\ req.fault = 0 -> resp.database = <<"Connected & Working">>
      [] dbconn = "handle" /\ req.fault > 0 ->
           Len(resp.database) > 1 /\ Head(resp.database) = "Connected but Error: "

C9_Reported ==
    req.op = "test_database" =>
        /\ resp.status = 200
        /\ resp.backend = <<"Running">>
        /\ C9_StatusText
        /\ resp.database_url =
             IF "DATABASE_URL" \in req.environ THEN <<"Set">> ELSE <<"Not Set">>
        /\ resp.database_name =
             IF "DATABASE_NAME" \in req.environ THEN <<"Set">> ELSE <<"Not Set">>
        /\ resp.connection_status =
             IF dbconn = "handle" THEN <<"Connected">> ELSE <<"Not Connected">>
        /\ Len(resp.collections) <= 10
        /\ dbconn = "handle" /\ req.fault = 0 =>
               /\ IsPrefix(resp.collections, list_collection_names(req.others))
               /\ Len(list_collection_names(req.others)) <= 10 =>
                      resp.collections = list_collection_names(req.others)
        /\ dbconn # "handle" \/ req.fault > 0 => resp.collections = <<>>

\* C9: the diagnostic never ends in an error: in every store state it
\* returns the backend as running, the status text of that state, whether the
\* connection string and the database name are set, the connection status
\* and at most 10 collection names; and it does not change the store.
C9_DiagnosticNeverFails ==
    /\ []C9_Reported
    /\ [][ req'.op = "test_database" => store' = store /\ nextId' = nextId ]_vars

\* a diagnostic of a database with more than 10 collections
C9_Witness ==
    /\ req.op = "test_database"
    /\ dbconn = "handle" /\ req.fault = 0
    /\ Len(list_collection_names(req.others)) > 10
    /\ Len(resp.collections) = 10
    /\ TotalRecords > 0

C10_Reported ==
    req.op = "default_templates" =>
        /\ resp.status = 200
        /\ Len(resp.items) = 3
        /\ \A i \in 1..Len(resp.items) :
               DOMAIN resp.items[i] = {"name", "category", "variables", "body"}

\* C10: the default-template catalog returns exactly 3 entries, each with the
\* fields name, category, variables and body, in every state of the store
\* and after any earlier requests, and it does not touch the store.
C10_DefaultsFixed ==
    /\ []C10_Reported
    /\ [][ req'.op = "default_templates" => store' = store /\ nextId' = nextId ]_vars

\* the catalog served after requests filled the store
C10_Witness ==
    /\ req.op = "default_templates"
    /\ resp.status = 200
    /\ TotalRecords = MaxRecords

====
